---- MODULE Spec2Model ----
(***************************************************************************)
(* Model of the Tanda (ROSCA) Soroban contract,                            *)
(* src/soroban-tanda/src/lib.rs.  One tanda instance is followed: its      *)
(* Tanda record, its member roster (Vec<Member>), the token balance the    *)
(* contract holds for it, and the ledger clock.  Every contract entry      *)
(* point is one action; a panic rolls the whole invocation back (Soroban   *)
(* host semantics), so a failing call leaves the persisted state alone and *)
(* only the outcome of the call (variable last) records it.                *)
(***************************************************************************)
EXTENDS Integers, Sequences, FiniteSets

\* ---------------------------------------------------------------- bounds
NumAddrs == 3          \* addresses that call the contract
MaxAmount == 1         \* largest amount passed to create_tanda
MaxMembersArg == 3     \* largest max_members passed to create_tanda
TickDays == 6          \* days the ledger clock advances per tick
BatchMembers == 4      \* roster size of the tanda SpecBatch follows
MaxDays == 13          \* the ledger clock stops by this many days

\* ------------------------------------------------------- program constants
DELINQUENCY_DAYS == 6
SECONDS_PER_DAY == 86400
MIN_MEMBERS == 2
MAX_MEMBERS == 12

Addrs == 1..NumAddrs
NoAddr == 0            \* Option<Address>::None
NoRet == << >>         \* the unit return value

VARIABLES
    tanda,      \* persistent DataKey::Tanda(id); status "Absent" before create_tanda
    members,    \* persistent DataKey::Members(id), the roster in join order
    pool,       \* token balance of the contract address
    payouts,    \* per address, the number of payout transfers it received
    now,        \* env.ledger().timestamp()
    last        \* outcome of the last invocation: [op, err, ret]

vars == <<tanda, members, pool, payouts, now, last>>

NoTanda ==
    [creator |-> NoAddr, amount |-> 0, max_members |-> 0, status |-> "Absent",
     current_cycle |-> 0, total_cycles |-> 0, created_at |-> 0,
     started_at |-> 0, last_payout_at |-> 0]

Outcome(op, err, ret) == [op |-> op, err |-> err, ret |-> ret]

\* ---------------------------------------------------------------- helpers

\* number of members m of ms[1..n] with status != Expelled
RECURSIVE CountNonExpelled(_, _)
CountNonExpelled(ms, n) ==
    IF n = 0 THEN 0
    ELSE CountNonExpelled(ms, n - 1) + (IF ms[n].status # "Expelled" THEN 1 ELSE 0)

ActiveCount(ms) == CountNonExpelled(ms, Len(ms))

Deadline(t) == t.last_payout_at + (DELINQUENCY_DAYS * SECONDS_PER_DAY)

\* the index of the first roster entry with this address, 0 when absent
FindMember(ms, a) ==
    IF \E i \in 1..Len(ms) : ms[i].address = a
    THEN CHOOSE i \in 1..Len(ms) :
            /\ ms[i].address = a
            /\ \A j \in 1..(i - 1) : ms[j].address # a
    ELSE 0


\* the roster with entry i replaced by m (Vec::set)
SetMember(ms, i, m) == [ms EXCEPT ![i] = m]

\* Reorder with the counter also stepped for Expelled members
Reorder_CountAll(ms) ==
    [i \in 1..Len(ms) |->
        IF ms[i].status # "Expelled"
        THEN [ms[i] EXCEPT !.position = i - 1]
        ELSE ms[i]]

\* "Reorder positions": every non-Expelled member gets the next position,
\* counted from 0 in roster order; Expelled members keep theirs
Reorder(ms) ==
    [i \in 1..Len(ms) |->
        IF ms[i].status # "Expelled"
        THEN [ms[i] EXCEPT !.position = CountNonExpelled(ms, i - 1)]
        ELSE ms[i]]

\* AllDeposited looking only at the members still to be paid
AllDeposited_ActiveOnly(ms) ==
    \A i \in 1..Len(ms) : ms[i].status = "Active" => ms[i].has_deposited

\* all_deposited of the payout scan: no non-Expelled member with has_deposited false
AllDeposited(ms) ==
    \A i \in 1..Len(ms) : ms[i].status # "Expelled" => ms[i].has_deposited

\* beneficiary of the payout scan: the address of the last member in roster
\* order that is non-Expelled, at the position and Active; NoAddr when none
Beneficiary(ms, pos) ==
    LET hits == {i \in 1..Len(ms) :
                    /\ ms[i].status # "Expelled"
                    /\ ms[i].position = pos
                    /\ ms[i].status = "Active"}
    IN IF hits = {} THEN NoAddr
       ELSE ms[CHOOSE i \in hits : \A j \in hits : j <= i].address

\* PayoutMembers without the recipient's status update
PayoutMembers_NoMark(ms, recipient) ==
    [i \in 1..Len(ms) |-> [ms[i] EXCEPT !.has_deposited = FALSE]]

\* "mark recipient as Received, reset deposits"
PayoutMembers(ms, recipient) ==
    [i \in 1..Len(ms) |->
        [ms[i] EXCEPT
            !.status = IF ms[i].address = recipient THEN "Received" ELSE @,
            !.has_deposited = FALSE]]

\* AdvanceCycle completing already when current_cycle reaches total_cycles
AdvanceCycle_CompleteAtLast(t, ts) ==
    LET t1 == [t EXCEPT !.current_cycle = @ + 1, !.last_payout_at = ts]
    IN IF t1.current_cycle >= t1.total_cycles
       THEN [t1 EXCEPT !.status = "Completed"]
       ELSE t1

\* AdvanceCycle without the increment of current_cycle
AdvanceCycle_Stay(t, ts) ==
    LET t1 == [t EXCEPT !.last_payout_at = ts]
    IN IF t1.current_cycle > t1.total_cycles
       THEN [t1 EXCEPT !.status = "Completed"]
       ELSE t1

\* "Advance cycle" and "Check if tanda is complete"
AdvanceCycle(t, ts) ==
    LET t1 == [t EXCEPT !.current_cycle = @ + 1, !.last_payout_at = ts]
    IN IF t1.current_cycle > t1.total_cycles
       THEN [t1 EXCEPT !.status = "Completed"]
       ELSE t1

\* a member the expulsion pass of advance expels
IsDelinquent(m) == m.status # "Expelled" /\ ~m.has_deposited

\* the roster after the expulsion pass of advance, before the reordering
ExpelDelinquents(ms) ==
    [i \in 1..Len(ms) |->
        IF IsDelinquent(ms[i]) THEN [ms[i] EXCEPT !.status = "Expelled"] ELSE ms[i]]

\* CyclesLost without the exemption of members that had received
RECURSIVE CyclesLost_All(_, _)
CyclesLost_All(ms, n) ==
    IF n = 0 THEN 0
    ELSE CyclesLost_All(ms, n - 1) + (IF IsDelinquent(ms[n]) THEN 1 ELSE 0)

\* how often the expulsion pass runs total_cycles -= 1: once per expelled
\* member that had not received
RECURSIVE CyclesLost(_, _)
CyclesLost(ms, n) ==
    IF n = 0 THEN 0
    ELSE CyclesLost(ms, n - 1)
         + (IF IsDelinquent(ms[n]) /\ ms[n].status # "Received" THEN 1 ELSE 0)


\* ------------------------------------------------------------ entry points
\* Each XErr operator is the panic the call ends with, in the order the code
\* tests, or "none".  get_tanda_internal panics on an id with no record.

Init ==
    /\ tanda = NoTanda
    /\ members = << >>
    /\ pool = 0
    /\ payouts = [a \in Addrs |-> 0]
    /\ now = 0
    /\ last = Outcome("initialize", "none", NoRet)

\* Fails with the roster of advance's expulsion pass saved before the panic
Fails_PartialWrite(op, err) ==
    /\ last' = Outcome(op, err, NoRet)
    /\ members' = IF op = "advance" /\ tanda.status = "Active" /\ now >= Deadline(tanda)
                  THEN Reorder(ExpelDelinquents(members))
                  ELSE members
    /\ UNCHANGED <<tanda, pool, payouts, now>>

\* a panic: the host rolls the invocation back, and the code writes to storage
\* only after its last check
Fails(op, err) ==
    /\ last' = Outcome(op, err, NoRet)
    /\ UNCHANGED <<tanda, members, pool, payouts, now>>

CreateTandaErr(amount, max_members) ==
    IF amount <= 0 THEN "amount must be positive"
    ELSE IF max_members < MIN_MEMBERS \/ max_members > MAX_MEMBERS THEN "members must be 2-12"
    ELSE "none"

\* create_tanda; the model follows the first tanda created
CreateTanda(creator, amount, max_members) ==
    /\ tanda.status = "Absent"
    /\ LET err == CreateTandaErr(amount, max_members) IN
       IF err # "none" THEN Fails("create_tanda", err)
       ELSE
        /\ tanda' = [creator |-> creator, amount |-> amount,
                     max_members |-> max_members, status |-> "Forming",
                     current_cycle |-> 0, total_cycles |-> 0, created_at |-> now,
                     started_at |-> 0, last_payout_at |-> 0]
        /\ members' = << [address |-> creator, status |-> "Active", position |-> 0,
                          has_deposited |-> FALSE, joined_at |-> now] >>
        /\ last' = Outcome("create_tanda", "none", NoRet)
        /\ UNCHANGED <<pool, payouts, now>>

\* JoinTandaErr without the scan for the candidate's address
JoinTandaErr_NoDuplicateCheck(user) ==
    IF tanda.status = "Absent" THEN "tanda not found"
    ELSE IF tanda.status # "Forming" THEN "tanda not accepting members"
    ELSE IF Len(members) >= tanda.max_members THEN "tanda is full"
    ELSE "none"

JoinTandaErr(user) ==
    IF tanda.status = "Absent" THEN "tanda not found"
    ELSE IF tanda.status # "Forming" THEN "tanda not accepting members"
    ELSE IF Len(members) >= tanda.max_members THEN "tanda is full"
    ELSE IF FindMember(members, user) # 0 THEN "already a member"
    ELSE "none"

JoinTanda(user) ==
    LET err == JoinTandaErr(user) IN
    IF err # "none" THEN Fails("join_tanda", err)
    ELSE
        /\ members' = Append(members,
                [address |-> user, status |-> "Active", position |-> Len(members),
                 has_deposited |-> FALSE, joined_at |-> now])
        /\ last' = Outcome("join_tanda", "none", NoRet)
        /\ UNCHANGED <<tanda, pool, payouts, now>>

\* StartTandaErr without the check of the caller
StartTandaErr_NoCreatorCheck(caller) ==
    IF tanda.status = "Absent" THEN "tanda not found"
    ELSE IF tanda.status # "Forming" THEN "tanda not in forming state"
    ELSE IF Len(members) < 2 THEN "need at least 2 members"
    ELSE "none"

StartTandaErr(caller) ==
    IF tanda.status = "Absent" THEN "tanda not found"
    ELSE IF tanda.creator # caller THEN "only creator can start"
    ELSE IF tanda.status # "Forming" THEN "tanda not in forming state"
    ELSE IF Len(members) < 2 THEN "need at least 2 members"
    ELSE "none"

StartTanda(caller) ==
    LET err == StartTandaErr(caller) IN
    IF err # "none" THEN Fails("start_tanda", err)
    ELSE
        /\ tanda' = [tanda EXCEPT !.status = "Active", !.started_at = now,
                                  !.last_payout_at = now, !.current_cycle = 1,
                                  !.total_cycles = Len(members)]
        /\ last' = Outcome("start_tanda", "none", NoRet)
        /\ UNCHANGED <<members, pool, payouts, now>>

\* CancelTandaErr without the check of the Forming status
CancelTandaErr_AnyStatus(caller) ==
    IF tanda.status = "Absent" THEN "tanda not found"
    ELSE IF tanda.creator # caller THEN "only creator can cancel"
    ELSE "none"

CancelTandaErr(caller) ==
    IF tanda.status = "Absent" THEN "tanda not found"
    ELSE IF tanda.creator # caller THEN "only creator can cancel"
    ELSE IF tanda.status # "Forming" THEN "can only cancel while forming"
    ELSE "none"

CancelTanda(caller) ==
    LET err == CancelTandaErr(caller) IN
    IF err # "none" THEN Fails("cancel_tanda", err)
    ELSE
        /\ tanda' = [tanda EXCEPT !.status = "Cancelled"]
        /\ last' = Outcome("cancel_tanda", "none", NoRet)
        /\ UNCHANGED <<members, pool, payouts, now>>

\* DepositErr without the check of has_deposited
DepositErr_NoDepositedCheck(user) ==
    LET idx == FindMember(members, user) IN
    IF tanda.status = "Absent" THEN "tanda not found"
    ELSE IF tanda.status # "Active" THEN "tanda not active"
    ELSE IF idx # 0 /\ members[idx].status = "Expelled" THEN "member was expelled"
    ELSE IF idx = 0 THEN "not a member"
    ELSE "none"

\* deposit: the scan stops at the first entry with the user's address
DepositErr(user) ==
    LET idx == FindMember(members, user) IN
    IF tanda.status = "Absent" THEN "tanda not found"
    ELSE IF tanda.status # "Active" THEN "tanda not active"
    ELSE IF idx # 0 /\ members[idx].status = "Expelled" THEN "member was expelled"
    ELSE IF idx # 0 /\ members[idx].has_deposited THEN "already deposited this cycle"
    ELSE IF idx = 0 THEN "not a member"
    ELSE "none"

\* The token transfer of tanda.amount from the user to the contract raises the
\* contract's balance; the commission goes from the user to the commission
\* address and touches neither the contract's balance nor its storage.  A
\* user whose balance does not cover both transfers (funded = FALSE) makes
\* the token contract fail the call.
Deposit(user, funded) ==
    LET err == DepositErr(user)
        idx == FindMember(members, user)
    IN
    IF err # "none" THEN Fails("deposit", err)
    ELSE IF ~funded THEN Fails("deposit", "balance is not sufficient")
    ELSE
        /\ pool' = pool + tanda.amount
        /\ members' = SetMember(members, idx, [members[idx] EXCEPT !.has_deposited = TRUE])
        /\ last' = Outcome("deposit", "none", NoRet)
        /\ UNCHANGED <<tanda, payouts, now>>


\* trigger_payout: payout = amount * active_count leaves the contract's balance.
\* That balance covers every tanda of the contract, so the transfer is taken to
\* succeed; pool is the part of the balance that belongs to this tanda, and a
\* payout larger than it would drive pool below 0.
TriggerPayoutErr ==
    IF tanda.status = "Absent" THEN "tanda not found"
    ELSE IF tanda.status # "Active" THEN "tanda not active"
    ELSE IF ~AllDeposited(members) THEN "not all members have deposited"
    ELSE IF Beneficiary(members, tanda.current_cycle - 1) = NoAddr THEN "beneficiary not found"
    ELSE "none"

TriggerPayout ==
    LET err == TriggerPayoutErr
        recipient == Beneficiary(members, tanda.current_cycle - 1)
        payout == tanda.amount * ActiveCount(members)
    IN
    IF err # "none" THEN Fails("trigger_payout", err)
    ELSE
        /\ pool' = pool - payout
        /\ payouts' = [payouts EXCEPT ![recipient] = @ + 1]
        /\ members' = PayoutMembers(members, recipient)
        /\ tanda' = AdvanceCycle(tanda, now)
        /\ last' = Outcome("trigger_payout", "none", NoRet)
        /\ UNCHANGED now

\* expel_delinquent: the roster with the delinquent's status set to Expelled
ExpelOne(ms, delinquent) ==
    [i \in 1..Len(ms) |->
        IF ms[i].address = delinquent THEN [ms[i] EXCEPT !.status = "Expelled"] ELSE ms[i]]

\* ExpelDelinquentErr without the check of has_deposited
ExpelDelinquentErr_NoDepositCheck(delinquent) ==
    LET idx == FindMember(members, delinquent) IN
    IF tanda.status = "Absent" THEN "tanda not found"
    ELSE IF tanda.status # "Active" THEN "tanda not active"
    ELSE IF now < Deadline(tanda) THEN "delinquency period not passed"
    ELSE IF idx # 0 /\ members[idx].status = "Expelled" THEN "already expelled"
    ELSE IF idx = 0 THEN "member not found"
    ELSE IF members[idx].status # "Received" /\ tanda.total_cycles = 0
        THEN "attempt to subtract with overflow"
    ELSE "none"

ExpelDelinquentErr(delinquent) ==
    LET idx == FindMember(members, delinquent) IN
    IF tanda.status = "Absent" THEN "tanda not found"
    ELSE IF tanda.status # "Active" THEN "tanda not active"
    ELSE IF now < Deadline(tanda) THEN "delinquency period not passed"
    ELSE IF idx # 0 /\ members[idx].status = "Expelled" THEN "already expelled"
    ELSE IF idx # 0 /\ members[idx].has_deposited THEN "member has deposited"
    ELSE IF idx = 0 THEN "member not found"
    ELSE IF members[idx].status # "Received" /\ tanda.total_cycles = 0
        THEN "attempt to subtract with overflow"
    ELSE "none"

ExpelDelinquent(delinquent) ==
    LET err == ExpelDelinquentErr(delinquent)
        idx == FindMember(members, delinquent)
    IN
    IF err # "none" THEN Fails("expel_delinquent", err)
    ELSE
        /\ tanda' = IF members[idx].status # "Received"
                    THEN [tanda EXCEPT !.total_cycles = @ - 1]
                    ELSE tanda
        /\ members' = Reorder(ExpelOne(members, delinquent))
        /\ last' = Outcome("expel_delinquent", "none", NoRet)
        /\ UNCHANGED <<pool, payouts, now>>

\* AdvanceExpelledAny without the deadline
AdvanceExpelledAny_NoDeadline == \E i \in 1..Len(members) : IsDelinquent(members[i])

\* advance, steps 1 and 2: the roster and the record after the expulsion pass
AdvanceExpelledAny == now >= Deadline(tanda) /\ \E i \in 1..Len(members) : IsDelinquent(members[i])

\* AdvanceMembers1 without the reordering of positions
AdvanceMembers1_NoReorder ==
    IF AdvanceExpelledAny THEN ExpelDelinquents(members) ELSE members

AdvanceMembers1 ==
    IF AdvanceExpelledAny THEN Reorder(ExpelDelinquents(members)) ELSE members

\* AdvanceTanda1 without the decrement of total_cycles
AdvanceTanda1_NoDecrement == tanda

AdvanceTanda1 ==
    IF AdvanceExpelledAny
    THEN [tanda EXCEPT !.total_cycles = @ - CyclesLost(members, Len(members))]
    ELSE tanda

AdvanceErr ==
    IF tanda.status = "Absent" THEN "tanda not found"
    ELSE IF tanda.status # "Active" THEN "tanda not active"
    ELSE IF AdvanceTanda1.total_cycles < 0 THEN "attempt to subtract with overflow"
    ELSE IF ActiveCount(AdvanceMembers1) <= 1 THEN "none"
    ELSE IF ~AllDeposited(AdvanceMembers1) THEN "none"
    ELSE IF Beneficiary(AdvanceMembers1, tanda.current_cycle - 1) = NoAddr
        THEN "beneficiary not found"
    ELSE "none"

Advance ==
    LET err == AdvanceErr
        ms1 == AdvanceMembers1
        t1 == AdvanceTanda1
        active_count == ActiveCount(ms1)
        all_deposited == AllDeposited(ms1)
        recipient == Beneficiary(ms1, tanda.current_cycle - 1)
        payout == tanda.amount * active_count
    IN
    IF err # "none" THEN Fails("advance", err)
    ELSE IF active_count <= 1 THEN
        /\ tanda' = [t1 EXCEPT !.status = "Completed"]
        /\ members' = ms1
        /\ last' = Outcome("advance", "none", <<AdvanceExpelledAny>>)
        /\ UNCHANGED <<pool, payouts, now>>
    ELSE IF all_deposited THEN
        /\ pool' = pool - payout
        /\ payouts' = [payouts EXCEPT ![recipient] = @ + 1]
        /\ members' = PayoutMembers(ms1, recipient)
        /\ tanda' = AdvanceCycle(t1, now)
        /\ last' = Outcome("advance", "none", <<TRUE>>)
        /\ UNCHANGED now
    ELSE
        /\ tanda' = t1
        /\ members' = ms1
        /\ last' = Outcome("advance", "none", <<AdvanceExpelledAny>>)
        /\ UNCHANGED <<pool, payouts, now>>

\* what a successful advance returns and saves
AdvanceRet ==
    IF ActiveCount(AdvanceMembers1) <= 1 THEN AdvanceExpelledAny
    ELSE AdvanceExpelledAny \/ AllDeposited(AdvanceMembers1)

AdvanceTandaOut ==
    IF ActiveCount(AdvanceMembers1) <= 1 THEN [AdvanceTanda1 EXCEPT !.status = "Completed"]
    ELSE IF AllDeposited(AdvanceMembers1) THEN AdvanceCycle(AdvanceTanda1, now)
    ELSE AdvanceTanda1

AdvanceMembersOut ==
    IF ActiveCount(AdvanceMembers1) > 1 /\ AllDeposited(AdvanceMembers1)
    THEN PayoutMembers(AdvanceMembers1,
                       Beneficiary(AdvanceMembers1, tanda.current_cycle - 1))
    ELSE AdvanceMembers1

\* get_advance_status: (can_advance, will_expel_count, will_payout, beneficiary)
WouldBeExpelled(m) == now >= Deadline(tanda) /\ ~m.has_deposited

RECURSIVE PreviewExpelCount(_, _)
PreviewExpelCount(ms, n) ==
    IF n = 0 THEN 0
    ELSE PreviewExpelCount(ms, n - 1)
         + (IF ms[n].status # "Expelled" /\ WouldBeExpelled(ms[n]) THEN 1 ELSE 0)

RECURSIVE PreviewRemainingTotal(_, _)
PreviewRemainingTotal(ms, n) ==
    IF n = 0 THEN 0
    ELSE PreviewRemainingTotal(ms, n - 1)
         + (IF ms[n].status # "Expelled" /\ ~WouldBeExpelled(ms[n]) THEN 1 ELSE 0)

RECURSIVE PreviewRemainingDeposited(_, _)
PreviewRemainingDeposited(ms, n) ==
    IF n = 0 THEN 0
    ELSE PreviewRemainingDeposited(ms, n - 1)
         + (IF /\ ms[n].status # "Expelled"
               /\ ~WouldBeExpelled(ms[n])
               /\ ms[n].has_deposited THEN 1 ELSE 0)

PreviewBeneficiary(ms, pos) ==
    LET hits == {i \in 1..Len(ms) :
                    /\ ms[i].status # "Expelled"
                    /\ ~WouldBeExpelled(ms[i])
                    /\ ms[i].position = pos
                    /\ ms[i].status = "Active"}
    IN IF hits = {} THEN NoAddr
       ELSE ms[CHOOSE i \in hits : \A j \in hits : j <= i].address

\* PreviewWillPayout without the more-than-one-member threshold
PreviewWillPayout_AnyLeft ==
    /\ PreviewRemainingTotal(members, Len(members)) > 0
    /\ PreviewRemainingDeposited(members, Len(members))
         = PreviewRemainingTotal(members, Len(members))

PreviewWillPayout ==
    /\ PreviewRemainingTotal(members, Len(members)) > 1
    /\ PreviewRemainingDeposited(members, Len(members))
         = PreviewRemainingTotal(members, Len(members))

AdvanceStatus ==
    IF tanda.status # "Active" THEN <<FALSE, 0, FALSE, NoAddr>>
    ELSE <<PreviewExpelCount(members, Len(members)) > 0 \/ PreviewWillPayout,
           PreviewExpelCount(members, Len(members)),
           PreviewWillPayout,
           PreviewBeneficiary(members, tanda.current_cycle - 1)>>

GetAdvanceStatus ==
    IF tanda.status = "Absent" THEN Fails("get_advance_status", "tanda not found")
    ELSE
        /\ last' = Outcome("get_advance_status", "none", AdvanceStatus)
        /\ UNCHANGED <<tanda, members, pool, payouts, now>>

\* CanExpelRet with the deadline itself still inside the grace period
CanExpelRet_StrictDeadline(member) ==
    LET idx == FindMember(members, member) IN
    IF tanda.status # "Active" THEN FALSE
    ELSE IF now <= Deadline(tanda) THEN FALSE
    ELSE IF idx # 0 THEN members[idx].status # "Expelled" /\ ~members[idx].has_deposited
    ELSE FALSE

\* can_expel: the answer for the first roster entry with the address
CanExpelRet(member) ==
    LET idx == FindMember(members, member) IN
    IF tanda.status # "Active" THEN FALSE
    ELSE IF now < Deadline(tanda) THEN FALSE
    ELSE IF idx # 0 THEN members[idx].status # "Expelled" /\ ~members[idx].has_deposited
    ELSE FALSE

CanExpel(member) ==
    IF tanda.status = "Absent" THEN Fails("can_expel", "tanda not found")
    ELSE
        /\ last' = Outcome("can_expel", "none", <<CanExpelRet(member)>>)
        /\ UNCHANGED <<tanda, members, pool, payouts, now>>

\* TimeToDeadlineAt without the early return at now >= deadline
TimeToDeadlineAt_NoSaturation(t, ts) == Deadline(t) - ts

\* time_to_deadline of record t at ledger time ts
TimeToDeadlineAt(t, ts) ==
    IF ts >= Deadline(t) THEN 0 ELSE Deadline(t) - ts

TimeToDeadline ==
    IF tanda.status = "Absent" THEN Fails("time_to_deadline", "tanda not found")
    ELSE
        /\ last' = Outcome("time_to_deadline", "none", <<TimeToDeadlineAt(tanda, now)>>)
        /\ UNCHANGED <<tanda, members, pool, payouts, now>>

\* the ledger closes: the timestamp moves on
Tick ==
    /\ now + TickDays * SECONDS_PER_DAY <= MaxDays * SECONDS_PER_DAY
    /\ now' = now + TickDays * SECONDS_PER_DAY
    /\ UNCHANGED <<tanda, members, pool, payouts, last>>

Next ==
    \/ \E creator \in Addrs, amount \in 0..MaxAmount, max_members \in 1..MaxMembersArg :
            CreateTanda(creator, amount, max_members)
    \/ \E user \in Addrs : JoinTanda(user)
    \/ \E caller \in Addrs : StartTanda(caller)
    \/ \E caller \in Addrs : CancelTanda(caller)
    \/ \E user \in Addrs, funded \in BOOLEAN : Deposit(user, funded)
    \/ TriggerPayout
    \/ \E delinquent \in Addrs : ExpelDelinquent(delinquent)
    \/ Advance
    \/ GetAdvanceStatus
    \/ \E member \in Addrs : CanExpel(member)
    \/ TimeToDeadline
    \/ Tick

Spec == Init /\ [][Next]_vars


\* ------------------------------------------------------------------ claims

NonExpelled(ms) == {i \in 1..Len(ms) : ms[i].status # "Expelled"}
ExpelledCount(ms) == Len(ms) - ActiveCount(ms)
IsActive == tanda.status = "Active"

\* a step that pays out: the cycle counter moves on in an Active tanda
PayoutStep == IsActive /\ tanda'.current_cycle = tanda.current_cycle + 1

\* C1: termination.  An Active tanda can always still be driven to Completed:
\* there is no reachable Active state in which every member left has
\* deposited (so nobody can deposit or be expelled, now or later) and both
\* advance and trigger_payout fail.
C1_NoDeadEnd ==
    ~(/\ IsActive
      /\ AllDeposited(members)
      /\ AdvanceErr # "none"
      /\ TriggerPayoutErr # "none")

\* The dead end of C1 is for ever: no step out of it changes the record or
\* the roster.
DeadEndIsForever ==
    [][~C1_NoDeadEnd => (tanda' = tanda /\ members' = members /\ pool' = pool)]_vars

\* C2: the beneficiary is always found.  Whenever the tanda is Active and
\* every non-Expelled member has deposited (for advance: after its expulsion
\* pass, with at least 2 members left), an Active member holds position
\* current_cycle - 1, and no call ends with "beneficiary not found".
C2_BeneficiaryFound ==
    /\ (IsActive /\ AllDeposited(members))
            => Beneficiary(members, tanda.current_cycle - 1) # NoAddr
    /\ (IsActive /\ ActiveCount(AdvanceMembers1) >= 2 /\ AllDeposited(AdvanceMembers1))
            => Beneficiary(AdvanceMembers1, tanda.current_cycle - 1) # NoAddr
    /\ last.err # "beneficiary not found"

\* C3: conservation at completion.  In a Completed tanda everything that was
\* deposited has been paid out: the contract holds nothing.
C3_PoolEmptyAtCompletion == tanda.status = "Completed" => pool = 0

\* C4: no double pay.  No address receives more than one payout; a payout
\* goes to a member that is Active at that moment and is Received after it;
\* a Received member never becomes Active again.
C4_NoDoublePay ==
    [][/\ \A a \in Addrs : payouts'[a] <= 1
       /\ \A a \in Addrs : payouts'[a] # payouts[a] =>
            /\ payouts'[a] = payouts[a] + 1
            /\ PayoutStep
            /\ FindMember(members, a) # 0
            /\ members[FindMember(members, a)].status = "Active"
            /\ members'[FindMember(members, a)].status = "Received"
       /\ PayoutStep => \E a \in Addrs : payouts'[a] = payouts[a] + 1
       /\ \A i \in 1..Len(members) : members[i].status = "Received" =>
            /\ i <= Len(members')
            /\ members'[i].address = members[i].address
            /\ members'[i].status # "Active"]_vars

\* two members have been paid, one payout each
C4_Witness ==
    /\ Cardinality({a \in Addrs : payouts[a] = 1}) >= 2
    /\ \E i \in 1..Len(members) : members[i].status = "Received"

\* C5: unanimity before payout.  A payout step happens only when every member
\* that is non-Expelled at the moment of the payout has deposited, Received
\* members included.
C5_UnanimityBeforePayout ==
    [][PayoutStep =>
        /\ \E i \in 1..Len(members) :
                members[i].status = "Active" /\ members'[i].status = "Received"
        /\ \A i \in NonExpelled(members') : members[i].has_deposited]_vars

\* advance has just paid out in a roster with an expelled member and a
\* Received member that had deposited and stays
C5_Witness ==
    /\ last = Outcome("advance", "none", <<TRUE>>)
    /\ tanda.current_cycle >= 3
    /\ tanda.last_payout_at = now
    /\ ExpelledCount(members) >= 1
    /\ \E i \in NonExpelled(members) : members[i].status = "Received"

\* C6: position density.  The positions of the non-Expelled members are
\* exactly 0..k-1, without duplicates, rising in join order.
C6_PositionDensity ==
    /\ {members[i].position : i \in NonExpelled(members)}
            = 0..(Cardinality(NonExpelled(members)) - 1)
    /\ \A i, j \in NonExpelled(members) :
            i < j => /\ members[i].position < members[j].position
                     /\ members[i].joined_at <= members[j].joined_at

\* the first member to join is expelled and two members are left
C6_Witness ==
    /\ Len(members) = 3
    /\ members[1].status = "Expelled"
    /\ NonExpelled(members) = {2, 3}

\* C7: advance returns true exactly when it changed the record or the roster.
C7_AdvanceReturnsChanged ==
    [][(Advance /\ last'.err = "none") =>
        (last'.ret[1] <=> (tanda' # tanda \/ members' # members))]_vars

\* C8: the preview names the recipient.  When get_advance_status reports
\* will_payout it reports a beneficiary, and advance at that timestamp
\* succeeds and pays that address.
C8_PreviewNamesRecipient ==
    [][(Advance /\ IsActive /\ AdvanceStatus[3]) =>
        /\ AdvanceStatus[4] # NoAddr
        /\ last'.err = "none"
        /\ payouts'[AdvanceStatus[4]] = payouts[AdvanceStatus[4]] + 1]_vars

\* C9: the preview's counters match advance.  For an advance that succeeds,
\* get_advance_status in the state before it reports the number of members
\* advance expels, whether advance pays out, and the boolean advance
\* returns; and get_advance_status changes neither record, roster nor pool.
C9_PreviewMatchesAdvance ==
    [][/\ (Advance /\ last'.err = "none") =>
            /\ AdvanceStatus[2] = ExpelledCount(members') - ExpelledCount(members)
            /\ AdvanceStatus[3] <=> (tanda'.current_cycle = tanda.current_cycle + 1)
            /\ AdvanceStatus[3] <=> (\E a \in Addrs : payouts'[a] # payouts[a])
            /\ AdvanceStatus[1] <=> last'.ret[1]
       /\ (last'.op = "get_advance_status" /\ last' # last) =>
            /\ last'.err = "none" => last'.ret = AdvanceStatus
            /\ UNCHANGED <<tanda, members, pool, payouts, now>>]_vars

\* advance has just paid out, at or after the first deadline, among the two
\* members left beside an expelled one
C9_Witness ==
    /\ last = Outcome("advance", "none", <<TRUE>>)
    /\ tanda.last_payout_at = now
    /\ now >= DELINQUENCY_DAYS * SECONDS_PER_DAY
    /\ ExpelledCount(members) = 1
    /\ tanda.current_cycle >= 2

\* C10: completion on cycle exhaustion.  An Active tanda has
\* current_cycle <= total_cycles.
C10_ActiveWithinCycles == IsActive => tanda.current_cycle <= tanda.total_cycles


\* the helper operators of advance agree with the action
AdvanceOutMatches ==
    [][(Advance /\ last'.err = "none") =>
        /\ last'.ret = <<AdvanceRet>>
        /\ tanda' = AdvanceTandaOut
        /\ members' = AdvanceMembersOut]_vars

IsTerminal == tanda.status \in {"Completed", "Cancelled"}
SixDays == DELINQUENCY_DAYS * SECONDS_PER_DAY
PaidOut == \E a \in Addrs : payouts'[a] # payouts[a]

\* the roster indices whose member this step expels
Gone == {i \in 1..Len(members) :
            /\ members[i].status # "Expelled"
            /\ i <= Len(members')
            /\ members'[i].status = "Expelled"}

\* C11: completion on membership collapse.  An Active tanda has at least 2
\* non-Expelled members.
C11_ActiveHasTwoMembers == IsActive => ActiveCount(members) >= 2

\* C12: terminal states.  In a Completed or Cancelled tanda every mutating
\* operation fails and no step changes the record, the roster or the pool;
\* the tanda becomes Cancelled only from Forming, by cancel_tanda of the
\* creator.
C12_TerminalStates ==
    [][/\ IsTerminal =>
            /\ UNCHANGED <<tanda, members, pool, payouts>>
            /\ \A a \in Addrs :
                    /\ JoinTandaErr(a) # "none"
                    /\ StartTandaErr(a) # "none"
                    /\ DepositErr(a) # "none"
                    /\ ExpelDelinquentErr(a) # "none"
                    /\ CancelTandaErr(a) # "none"
            /\ TriggerPayoutErr # "none"
            /\ AdvanceErr # "none"
       /\ (tanda'.status = "Cancelled" /\ tanda.status # "Cancelled") =>
            /\ tanda.status = "Forming"
            /\ CancelTanda(tanda.creator)]_vars

\* a deposit into a Completed tanda has just failed
C12_Witness ==
    /\ tanda.status = "Completed"
    /\ last = Outcome("deposit", "tanda not active", NoRet)

\* C13: can_expel is the exact precondition of expel_delinquent.  A call
\* expel_delinquent(a) succeeds exactly when can_expel(a) is true in the
\* state and at the timestamp of the call; can_expel changes no state.
C13_CanExpelExact ==
    [][/\ \A a \in Addrs :
            ExpelDelinquent(a) => (CanExpelRet(a) <=> last'.err = "none")
       /\ (last'.op = "can_expel" /\ last' # last) =>
            UNCHANGED <<tanda, members, pool, payouts, now>>]_vars

\* a member has just been expelled; another could be, a third could not
C13_Witness ==
    /\ last = Outcome("expel_delinquent", "none", NoRet)
    /\ IsActive
    /\ \E a \in Addrs : CanExpelRet(a)
    /\ \E i \in NonExpelled(members) : members[i].has_deposited

\* C14: a no-op advance is idempotent.  After an advance that returns false,
\* advance at the same timestamp succeeds again, returns false and changes
\* neither record nor roster.
C14_NoOpAdvanceIdempotent ==
    [][(Advance /\ last'.err = "none" /\ ~last'.ret[1]) =>
        /\ AdvanceErr' = "none"
        /\ ~AdvanceRet'
        /\ AdvanceTandaOut' = tanda'
        /\ AdvanceMembersOut' = members']_vars

C16_ExpulsionAccounting ==
    [][IsActive =>
        /\ tanda'.total_cycles
              = tanda.total_cycles
                  - Cardinality({i \in Gone : members[i].status = "Active"})
        /\ \A a \in Addrs : (ExpelDelinquent(a) /\ last'.err = "none") =>
                Gone = {FindMember(members, a)}
        /\ (Advance /\ last'.err = "none") =>
                Gone = IF now >= Deadline(tanda)
                       THEN {i \in 1..Len(members) : IsDelinquent(members[i])}
                       ELSE {}]_vars

\* a paid member and an unpaid member have both been expelled
C16_Witness ==
    /\ \E i \in 1..Len(members) :
            members[i].status = "Expelled" /\ payouts[members[i].address] = 1
    /\ \E i \in 1..Len(members) :
            members[i].status = "Expelled" /\ payouts[members[i].address] = 0
    /\ tanda.total_cycles = 2

\* C17: no double deposit.  The contract's balance rises only by a deposit of
\* a non-Expelled member of an Active tanda whose has_deposited was false and
\* is true afterwards; has_deposited falls back to false only in a payout.
C17_NoDoubleDeposit ==
    [][/\ pool' > pool =>
            \E i \in 1..Len(members) :
                /\ IsActive
                /\ members[i].status # "Expelled"
                /\ ~members[i].has_deposited
                /\ members' = SetMember(members, i,
                                        [members[i] EXCEPT !.has_deposited = TRUE])
                /\ pool' = pool + tanda.amount
                /\ last' = Outcome("deposit", "none", NoRet)
       /\ \A i \in 1..Len(members) :
            (members[i].has_deposited /\ ~members'[i].has_deposited) => PaidOut
       /\ \A i \in 1..Len(members) :
            (~members[i].has_deposited /\ members'[i].has_deposited) => pool' > pool]_vars

\* a member that was paid in cycle 1 has deposited again in a later cycle
C17_Witness ==
    /\ last = Outcome("deposit", "none", NoRet)
    /\ tanda.current_cycle >= 2
    /\ \E i \in 1..Len(members) :
            members[i].status = "Received" /\ members[i].has_deposited

\* C18: cycle counter monotonicity.  current_cycle never decreases; once the
\* tanda has started it rises by exactly 1 in a step that pays out and stays
\* in every other step.
C18_CycleMonotone ==
    [][/\ tanda'.current_cycle >= tanda.current_cycle
       /\ tanda.status \notin {"Absent", "Forming"} =>
            tanda'.current_cycle
                = IF PaidOut THEN tanda.current_cycle + 1 ELSE tanda.current_cycle]_vars

\* two payouts have been made and the tanda goes on
C18_Witness == IsActive /\ tanda.current_cycle = 3

\* C19: expulsion respects the grace period and deposits.  A member becomes
\* Expelled only at now >= last_payout_at + 6 days and only with
\* has_deposited false.
C19_ExpulsionRespectsGrace ==
    [][\A i \in Gone : now >= tanda.last_payout_at + SixDays /\ ~members[i].has_deposited]_vars

\* past the deadline one member is expelled and one that deposited is not
C19_Witness ==
    /\ IsActive
    /\ now >= Deadline(tanda)
    /\ ExpelledCount(members) >= 1
    /\ \E i \in NonExpelled(members) : members[i].has_deposited

\* ledger times the deadline projection is compared at
Times == {d * SECONDS_PER_DAY : d \in 0..(MaxDays + DELINQUENCY_DAYS)}

\* C20: deadline projection.  time_to_deadline is
\* max(0, last_payout_at + 6 days - now); for a fixed record it falls
\* strictly as now rises until it is 0 and stays 0; right after a payout, at
\* the payout's timestamp, it is 6 days.
C20_DeadlineProjection ==
    [][/\ (TimeToDeadline /\ last'.err = "none") =>
            /\ last'.ret[1]
                  = IF tanda.last_payout_at + SixDays - now > 0
                    THEN tanda.last_payout_at + SixDays - now ELSE 0
            /\ \A t1, t2 \in Times : t1 < t2 =>
                  IF TimeToDeadlineAt(tanda, t1) > 0
                  THEN TimeToDeadlineAt(tanda, t2) < TimeToDeadlineAt(tanda, t1)
                  ELSE TimeToDeadlineAt(tanda, t2) = 0
       /\ PaidOut => TimeToDeadlineAt(tanda', now') = SixDays]_vars

\* time_to_deadline was called right after a payout made later than the start
C20_Witness ==
    /\ last = Outcome("time_to_deadline", "none", <<SixDays>>)
    /\ tanda.current_cycle >= 2
    /\ tanda.last_payout_at > tanda.started_at


\* the addresses of the roster, in roster order
RosterAddrs(ms) == [i \in 1..Len(ms) |-> ms[i].address]

\* the roster indices of the members not yet paid and not expelled
Unpaid(ms) == {i \in 1..Len(ms) : ms[i].status = "Active"}

\* C21: start_tanda.  The call succeeds exactly when the caller is the
\* creator, the status is Forming and the roster has at least 2 members; it
\* then sets status Active, current_cycle 1, total_cycles to the roster size
\* and started_at and last_payout_at to now; otherwise it fails and changes
\* nothing.
C21_StartTanda ==
    [][\A caller \in Addrs : StartTanda(caller) =>
        IF tanda.creator = caller /\ tanda.status = "Forming" /\ Len(members) >= 2
        THEN /\ last'.err = "none"
             /\ tanda'.status = "Active"
             /\ tanda'.current_cycle = 1
             /\ tanda'.total_cycles = Len(members)
             /\ tanda'.started_at = now
             /\ tanda'.last_payout_at = now
             /\ UNCHANGED <<members, pool, payouts, now>>
        ELSE /\ last'.err # "none"
             /\ UNCHANGED <<tanda, members, pool, payouts, now>>]_vars

\* a full tanda has been started later than it was created
C21_Witness ==
    /\ last = Outcome("start_tanda", "none", NoRet)
    /\ tanda.started_at > tanda.created_at
    /\ tanda.total_cycles = 3

\* C22: roster admission.  The roster of a tanda has between 1 and
\* max_members entries with pairwise distinct addresses; join_tanda succeeds
\* only in Forming, below max_members, for an address not in the roster, and
\* appends that address; once the tanda has left Forming the addresses of the
\* roster never change.
C22_RosterAdmission ==
    [][/\ tanda'.status # "Absent" =>
            /\ Len(members') >= 1
            /\ Len(members') <= tanda'.max_members
            /\ \A i, j \in 1..Len(members') :
                    members'[i].address = members'[j].address => i = j
       /\ \A user \in Addrs : (JoinTanda(user) /\ last'.err = "none") =>
            /\ tanda.status = "Forming"
            /\ Len(members) < tanda.max_members
            /\ \A i \in 1..Len(members) : members[i].address # user
            /\ RosterAddrs(members') = Append(RosterAddrs(members), user)
       /\ tanda.status \notin {"Absent", "Forming"} =>
            RosterAddrs(members') = RosterAddrs(members)]_vars

\* a join has just been refused by a started, full tanda that has expelled a
\* member
C22_Witness ==
    /\ last = Outcome("join_tanda", "tanda not accepting members", NoRet)
    /\ Len(members) = tanda.max_members
    /\ ExpelledCount(members) >= 1

\* C23: no member's turn is skipped.  In an Active tanda every member not yet
\* paid has position >= current_cycle - 1.
C23_NoTurnSkipped ==
    IsActive => \A i \in Unpaid(members) : members[i].position >= tanda.current_cycle - 1

\* C25: cycle bookkeeping.  In an Active or Completed tanda the number of
\* members not yet paid is total_cycles - current_cycle + 1; total_cycles
\* never underflows and current_cycle never exceeds total_cycles + 1.
C25_CycleBookkeeping ==
    /\ tanda.status \in {"Active", "Completed"} =>
            /\ Cardinality(Unpaid(members)) = tanda.total_cycles - tanda.current_cycle + 1
            /\ tanda.total_cycles >= 0
            /\ tanda.current_cycle <= tanda.total_cycles + 1
    /\ last.err # "attempt to subtract with overflow"

\* a paid member has been expelled, the tanda goes on with an unpaid member
C25_Witness ==
    /\ IsActive
    /\ tanda.current_cycle >= 2
    /\ \E i \in 1..Len(members) :
            members[i].status = "Expelled" /\ payouts[members[i].address] = 1
    /\ Unpaid(members) # {}

\* C26: pool solvency.  The pool is amount times the number of non-Expelled
\* members with has_deposited true; a payout takes the whole pool and the
\* pool is never overdrawn.
C26_PoolSolvency ==
    [][/\ pool' = tanda'.amount
                    * Cardinality({i \in NonExpelled(members') : members'[i].has_deposited})
       /\ pool' >= 0
       /\ PaidOut => /\ pool - pool' = tanda.amount * ActiveCount(members')
                     /\ pool' = 0]_vars

\* a payout to a group reduced by an expulsion has emptied the pool
C26_Witness ==
    /\ last = Outcome("trigger_payout", "none", NoRet)
    /\ ExpelledCount(members) >= 1
    /\ pool = 0

\* C27: completion by payout pays everyone left.  After a payout that moves
\* the tanda to Completed no member is left unpaid: each is Received or
\* Expelled.
C27_CompletionPaysAll ==
    [][(PaidOut /\ tanda'.status = "Completed") => Unpaid(members') = {}]_vars

\* the last payout was made by advance, to a tanda that had expelled a member
C27_Witness ==
    /\ last = Outcome("advance", "none", <<TRUE>>)
    /\ tanda.status = "Completed"
    /\ ExpelledCount(members) >= 1
    /\ \E i \in 1..Len(members) : members[i].status = "Received"


\* ------------------------------------------------- advance as a batch (C24)
\* expel_delinquent and trigger_payout as functions of the record t, the
\* roster ms and the ledger time ts they are called on

ExpelErrOf(t, ms, ts, delinquent) ==
    LET idx == FindMember(ms, delinquent) IN
    IF t.status # "Active" THEN "tanda not active"
    ELSE IF ts < Deadline(t) THEN "delinquency period not passed"
    ELSE IF idx # 0 /\ ms[idx].status = "Expelled" THEN "already expelled"
    ELSE IF idx # 0 /\ ms[idx].has_deposited THEN "member has deposited"
    ELSE IF idx = 0 THEN "member not found"
    ELSE IF ms[idx].status # "Received" /\ t.total_cycles = 0
        THEN "attempt to subtract with overflow"
    ELSE "none"

ExpelTandaOf(t, ms, delinquent) ==
    IF ms[FindMember(ms, delinquent)].status # "Received"
    THEN [t EXCEPT !.total_cycles = @ - 1]
    ELSE t

ExpelMembersOf(ms, delinquent) == Reorder(ExpelOne(ms, delinquent))

TriggerPayoutErrOf(t, ms) ==
    IF t.status # "Active" THEN "tanda not active"
    ELSE IF ~AllDeposited(ms) THEN "not all members have deposited"
    ELSE IF Beneficiary(ms, t.current_cycle - 1) = NoAddr THEN "beneficiary not found"
    ELSE "none"

\* what a run of calls leaves in storage; ok is FALSE once a call has failed
Stored(ok, t, ms) == [ok |-> ok, t |-> t, ms |-> ms]

\* expel_delinquent called for each address of the sequence order, in order
RECURSIVE ExpelEach(_, _, _, _)
ExpelEach(t, ms, ts, order) ==
    IF order = << >> THEN Stored(TRUE, t, ms)
    ELSE IF ExpelErrOf(t, ms, ts, Head(order)) # "none" THEN Stored(FALSE, t, ms)
    ELSE ExpelEach(ExpelTandaOf(t, ms, Head(order)),
                   ExpelMembersOf(ms, Head(order)), ts, Tail(order))

\* trigger_payout called after the run r
ThenTriggerPayout(r, ts) ==
    IF ~r.ok \/ TriggerPayoutErrOf(r.t, r.ms) # "none" THEN Stored(FALSE, r.t, r.ms)
    ELSE Stored(TRUE, AdvanceCycle(r.t, ts),
                PayoutMembers(r.ms, Beneficiary(r.ms, r.t.current_cycle - 1)))

\* the addresses advance would expel, and the orders they can be expelled in
DelinquentAddrs == {members[i].address : i \in {j \in 1..Len(members) : IsDelinquent(members[j])}}
Orders(S) == {f \in [1..Cardinality(S) -> S] : \A i, j \in 1..Cardinality(S) : f[i] = f[j] => i = j}

\* the roster with the positions of the Expelled members, which no scan
\* reads, blanked
LivePositions(ms) ==
    [i \in 1..Len(ms) |->
        IF ms[i].status = "Expelled" THEN [ms[i] EXCEPT !.position = 0] ELSE ms[i]]

\* the case of C24: past the deadline, with at least 2 deposits in
BatchCase ==
    /\ IsActive
    /\ now >= Deadline(tanda)
    /\ Cardinality({i \in NonExpelled(members) : members[i].has_deposited}) >= 2

\* A tanda of BatchMembers members, for the case of advance expelling more
\* than one member while two are left.  The creator is address 1 and the
\* members join in the order of their addresses.
BatchAddrs == 1..BatchMembers

BatchInit ==
    /\ tanda = NoTanda
    /\ members = << >>
    /\ pool = 0
    /\ payouts = [a \in BatchAddrs |-> 0]
    /\ now = 0
    /\ last = Outcome("initialize", "none", NoRet)

BatchNext ==
    \/ CreateTanda(1, 1, BatchMembers)
    \/ JoinTanda(Len(members) + 1)
    \/ StartTanda(1)
    \/ \E user \in BatchAddrs : Deposit(user, TRUE)
    \/ \E delinquent \in BatchAddrs : ExpelDelinquent(delinquent)
    \/ TriggerPayout
    \/ Advance
    \/ Tick

SpecBatch == BatchInit /\ [][BatchNext]_vars

\* the functions above are what the actions do
BatchOperatorsMatch ==
    [][/\ \A a \in BatchAddrs : (ExpelDelinquent(a) /\ tanda.status # "Absent") =>
            /\ last'.err = ExpelErrOf(tanda, members, now, a)
            /\ last'.err = "none" =>
                    /\ tanda' = ExpelTandaOf(tanda, members, a)
                    /\ members' = ExpelMembersOf(members, a)
       /\ (TriggerPayout /\ tanda.status # "Absent") =>
            /\ last'.err = TriggerPayoutErrOf(tanda, members)
            /\ last'.err = "none" =>
                    LET r == ThenTriggerPayout(Stored(TRUE, tanda, members), now)
                    IN tanda' = r.t /\ members' = r.ms]_vars

\* C24: advance batches the individual operations.  Past the deadline with at
\* least 2 deposits in, a successful advance returns true and leaves the
\* record and roster that expel_delinquent for each delinquent, in any
\* order, followed by trigger_payout leave.
C24_AdvanceBatches ==
    [][(Advance /\ BatchCase /\ last'.err = "none") =>
        /\ last'.ret = <<TRUE>>
        /\ \A order \in Orders(DelinquentAddrs) :
                LET r == ThenTriggerPayout(ExpelEach(tanda, members, now, order), now)
                IN r.ok /\ r.t = tanda' /\ r.ms = members']_vars

\* C24 as amended: the same, with the rosters compared up to the positions of
\* Expelled members.
C24_AdvanceBatchesLivePositions ==
    [][(Advance /\ BatchCase /\ last'.err = "none") =>
        /\ last'.ret = <<TRUE>>
        /\ \A order \in Orders(DelinquentAddrs) :
                LET r == ThenTriggerPayout(ExpelEach(tanda, members, now, order), now)
                IN /\ r.ok
                   /\ r.t = tanda'
                   /\ LivePositions(r.ms) = LivePositions(members')]_vars

\* the first payout was made by advance past the deadline, two of the four
\* members are expelled
C24_Witness ==
    /\ last = Outcome("advance", "none", <<TRUE>>)
    /\ tanda.current_cycle = 2
    /\ tanda.last_payout_at >= SixDays
    /\ ExpelledCount(members) = 2
    /\ Len(members) = 4

====
